---- MODULE Spec2Model ----
(***************************************************************************)
(* The native bootstrap of the Maxine VM (Native/substrate/maxine.c).      *)
(*                                                                         *)
(* Spec      one activation of maxine(): environment check, image load,    *)
(*           construction of the primordial thread locals and of the       *)
(*           auxiliary space, the call of the VM entry point, close and    *)
(*           return.                                                       *)
(* SpecPath  the path resolver: getExecutablePath, getImageFilePath (as    *)
(*           run by loadImage) and native_executablePath, over a byte      *)
(*           buffer of MAX_PATH_LENGTH characters.                         *)
(***************************************************************************)
EXTENDS Integers, Sequences, FiniteSets, TLC

\* ------------------------------------------------------------------ bounds

\* sizeof(Address), scaled down; the alignment arithmetic is the same for any size.
WordSize == 2
\* The largest vmThreadLocalsSize an image header carries in the model.
MaxTLS == 3
\* The largest auxiliarySpaceSize an image header carries in the model.
MaxAux == 2

\* MAX_PATH_LENGTH, scaled down: the size of every path buffer.
MAX_PATH_LENGTH == 14
\* How often the managed runtime calls native_executablePath in the model.
MaxCalls == 2
\* The longest path tail tried behind a padded directory.
MaxTail == 2

\* ------------------------------------------------------- program constants

REFERENCE_BUFFER_SIZE == 0
\* The status of each exit call of the loader.
EXIT_NO_FLAT_NAMESPACE == 11
EXIT_UNREADABLE_PATH == 1
EXIT_NO_AUXILIARY_SPACE == 1
\* The byte the auxiliary space is filled with.
POISON == 1

\* Characters: the terminator and the path separator.
NUL == 0
SLASH == 47
\* #define IMAGE_FILE_NAME "maxine.vm"
IMAGE_FILE_NAME == <<109, 97, 120, 105, 110, 101, 46, 118, 109>>

\* ------------------------------------------------------------ input domains

Platforms == {"DARWIN", "GUESTVMXEN", "LINUX", "SOLARIS"}
LinkPlatforms == {"LINUX", "SOLARIS"}

MinInt32 == (-2147483647) - 1
MaxInt32 == -(MinInt32 + 1)
\* Values the entry function may return (jint).
EntryReturns == {MinInt32, -1, 0, 1, 11, MaxInt32}
\* Codes the managed runtime may hand to native_exit / native_trap_exit.
NativeExitCodes == {0, 3}
\* What image_load may return as the image file descriptor.
FileDescriptors == {-1, 0, 3}
\* Bytes an uninitialised region (alloca, malloc) may hold.
GarbageByte == {0, 255}
\* Where alloca may place the block: every residue modulo the word size.
RawAddresses == (WordSize + 1)..(2 * WordSize)
\* Where malloc places a block when it succeeds, and the image heap.
MallocAddresses == {64}
ImageHeaps == {32}
MethodOffsets == {8}

ImageHeaders == [vmRunMethodOffset : MethodOffsets,
                 vmThreadLocalsSize : 0..MaxTLS,
                 auxiliarySpaceSize : 0..MaxAux]
NoHeader == [vmRunMethodOffset |-> 0, vmThreadLocalsSize |-> 0, auxiliarySpaceSize |-> 0]

\* --------------------------------------------------------- state of maxine()

VARIABLES
    platform,                  \* os_DARWIN / os_LINUX / ... selected at build time
    envSet,                    \* is DYLD_FORCE_FLAT_NAMESPACE defined
    pc,                        \* the statement of maxine() to run next
    outcome,                   \* "running", "returned" or "exited"
    fatal,                     \* which exit call ended the process, "none" otherwise
    exitCode,                  \* the local exitCode; the process status once exited
    fd,                        \* the local fd
    imageLoaded,               \* has image_load returned
    header,                    \* what image_header() points to
    heap,                      \* what image_heap() returns
    method,                    \* the local method
    stack,                     \* the alloca'd block: address -> byte
    primordialVmThreadLocals,  \* the local of that name
    tlZeroed,                  \* number of bytes the first memset filled
    auxiliarySpace,            \* the local of that name
    auxiliarySpaceSize,        \* the local of that name (the size tested)
    mallocArg,                 \* sizes handed to malloc, in call order
    auxMem,                    \* the malloc'ed block: sequence of bytes
    auxFilled,                 \* lengths handed to the second memset, in call order
    entryArgs,                 \* arguments of each call of the entry function
    entryReturned,             \* the values the entry function has returned
    trace,                     \* the calls made so far, in order
    executable,                \* the path of the running executable
    pathPc,                    \* "loadImage", "loaded" or "exited" (path resolver runs)
    imageFilePath,             \* the string loadImage hands to image_load
    result,                    \* the static buffer of native_executablePath
    returned,                  \* what each native_executablePath call returned
    scanReads,                 \* positions the last backward scan read
    scanWrites,                \* positions the last backward scan wrote
    appendAt                   \* where the last strcpy of the image name started

vars == <<platform, envSet, pc, outcome, fatal, exitCode, fd, imageLoaded, header,
          heap, method, stack, primordialVmThreadLocals, tlZeroed, auxiliarySpace,
          auxiliarySpaceSize, mallocArg, auxMem, auxFilled, entryArgs, entryReturned,
          trace>>

pathVars == <<executable, pathPc, imageFilePath, result, returned, scanReads, scanWrites,
              appendAt>>

locals == <<fd, imageLoaded, header, heap, method, stack, primordialVmThreadLocals, tlZeroed,
            auxiliarySpace, auxiliarySpaceSize, mallocArg, auxMem, auxFilled, entryArgs,
            entryReturned>>

\* The path resolver before any of it has run; the static buffer is zero filled.
PathIdle ==
    /\ pathPc = "loadImage"
    /\ imageFilePath = <<>>
    /\ result = [i \in 0..(MAX_PATH_LENGTH - 1) |-> NUL]
    /\ returned = <<>>
    /\ scanReads = {}
    /\ scanWrites = {}
    /\ appendAt = 0

Init ==
    /\ executable = <<>>
    /\ PathIdle
    /\ platform \in Platforms
    /\ envSet \in BOOLEAN
    /\ pc = "getenv"
    /\ outcome = "running"
    /\ fatal = "none"
    /\ exitCode = 0
    /\ fd = 0
    /\ imageLoaded = FALSE
    /\ header = NoHeader
    /\ heap = 0
    /\ method = 0
    /\ stack = <<>>
    /\ primordialVmThreadLocals = 0
    /\ tlZeroed = 0
    /\ auxiliarySpace = 0
    /\ auxiliarySpaceSize = 0
    /\ mallocArg = <<>>
    /\ auxMem = <<>>
    /\ auxFilled = <<>>
    /\ entryArgs = <<>>
    /\ entryReturned = <<>>
    /\ trace = <<>>

\* log_exit(code, ...) and exit(code): the process ends with status code.
log_exit(code, cause, calls) ==
    /\ outcome' = "exited"
    /\ fatal' = cause
    /\ exitCode' = code
    /\ pc' = "exited"
    /\ trace' = trace \o calls \o <<"exit">>
    /\ UNCHANGED pathVars

\* The statement at pc completes and control moves to next.
Goto(next, calls) ==
    /\ pc' = next
    /\ trace' = trace \o calls
    /\ UNCHANGED <<outcome, fatal>>
    /\ UNCHANGED pathVars

\* wordAlign(p): p rounded up to the next multiple of the word size.
wordAlign(p) == ((p + WordSize - 1) \div WordSize) * WordSize

\* memset(region, value, n) over a function of addresses.
memset(mem, start, value, n) ==
    [a \in DOMAIN mem |-> IF a >= start /\ a < start + n THEN value ELSE mem[a]]

\* Variant: the check reports nothing and the run goes on.
CheckEnvironment_NoExit ==
    /\ pc = "getenv"
    /\ Goto("loadImage", IF platform = "DARWIN" THEN <<"getenv">> ELSE <<>>)
    /\ UNCHANGED <<platform, envSet, exitCode, locals>>

\* Variant: the missing variable exits with the general failure status.
CheckEnvironment_SameCode ==
    /\ pc = "getenv"
    /\ IF platform = "DARWIN" /\ ~envSet
         THEN log_exit(EXIT_UNREADABLE_PATH, "env", <<"getenv">>)
         ELSE /\ Goto("loadImage", IF platform = "DARWIN" THEN <<"getenv">> ELSE <<>>)
              /\ UNCHANGED exitCode
    /\ UNCHANGED <<platform, envSet, locals>>

\* #if os_DARWIN: the DYLD_FORCE_FLAT_NAMESPACE check; compiled out elsewhere.
CheckEnvironment ==
    /\ pc = "getenv"
    /\ IF platform = "DARWIN" /\ ~envSet
         THEN log_exit(EXIT_NO_FLAT_NAMESPACE, "env", <<"getenv">>)
         ELSE /\ Goto("loadImage", IF platform = "DARWIN" THEN <<"getenv">> ELSE <<>>)
              /\ UNCHANGED exitCode
    /\ UNCHANGED <<platform, envSet, locals>>

\* fd = loadImage(): getImageFilePath, then image_load. The path text is the
\* subject of SpecPath; here only whether the self path could be read matters.
loadImage ==
    /\ pc = "loadImage"
    /\ \E readable \in BOOLEAN :
         IF platform # "GUESTVMXEN" /\ ~readable
           THEN \* realpath() == NULL, or readlink() < 0
                /\ log_exit(EXIT_UNREADABLE_PATH, "selfpath", <<"getExecutablePath">>)
                /\ UNCHANGED <<fd, header, heap, imageLoaded>>
           ELSE \* on GUESTVMXEN getImageFilePath is empty
                /\ \E newFd \in FileDescriptors, h \in ImageHeaders, base \in ImageHeaps :
                     /\ fd' = newFd
                     /\ header' = h
                     /\ heap' = base
                /\ imageLoaded' = TRUE
                /\ Goto("messenger_initialize",
                        IF platform = "GUESTVMXEN" THEN <<"image_load">>
                        ELSE <<"getExecutablePath", "image_load">>)
                /\ UNCHANGED exitCode
    /\ UNCHANGED <<platform, envSet, method, stack, primordialVmThreadLocals, tlZeroed,
                   auxiliarySpace, auxiliarySpaceSize, mallocArg, auxMem, auxFilled,
                   entryArgs, entryReturned>>

\* Variant: threads_initialize is left out.
messenger_initialize_SkipThreads ==
    /\ pc = "messenger_initialize"
    /\ Goto("method", <<"messenger_initialize">>)
    /\ UNCHANGED <<platform, envSet, exitCode, locals>>

messenger_initialize ==
    /\ pc = "messenger_initialize"
    /\ Goto("threads_initialize", <<"messenger_initialize">>)
    /\ UNCHANGED <<platform, envSet, exitCode, locals>>

threads_initialize ==
    /\ pc = "threads_initialize"
    /\ Goto("method", <<"threads_initialize">>)
    /\ UNCHANGED <<platform, envSet, exitCode, locals>>

\* method = image_heap() + image_header()->vmRunMethodOffset
ComputeMethod ==
    /\ pc = "method"
    /\ method' = heap + header.vmRunMethodOffset
    /\ Goto("alloca", <<"image_heap", "image_header">>)
    /\ UNCHANGED <<platform, envSet, exitCode, fd, imageLoaded, header, heap, stack,
                   primordialVmThreadLocals, tlZeroed, auxiliarySpace, auxiliarySpaceSize,
                   mallocArg, auxMem, auxFilled, entryArgs, entryReturned>>

\* primordialVmThreadLocals = alloca(vmThreadLocalsSize + sizeof(Address)):
\* the block may start at any address and holds whatever the stack held.
AllocaThreadLocals ==
    /\ pc = "alloca"
    /\ \E raw \in RawAddresses :
         \E contents \in [raw..(raw + header.vmThreadLocalsSize + WordSize - 1) -> GarbageByte] :
            /\ primordialVmThreadLocals' = raw
            /\ stack' = contents
    /\ Goto("wordAlign", <<"image_header", "alloca">>)
    /\ UNCHANGED <<platform, envSet, exitCode, fd, imageLoaded, header, heap, method, tlZeroed,
                   auxiliarySpace, auxiliarySpaceSize, mallocArg, auxMem, auxFilled,
                   entryArgs, entryReturned>>

\* primordialVmThreadLocals = wordAlign(primordialVmThreadLocals)
AlignThreadLocals ==
    /\ pc = "wordAlign"
    /\ primordialVmThreadLocals' = wordAlign(primordialVmThreadLocals)
    /\ Goto("memset0", <<"wordAlign">>)
    /\ UNCHANGED <<platform, envSet, exitCode, fd, imageLoaded, header, heap, method, stack,
                   tlZeroed, auxiliarySpace, auxiliarySpaceSize, mallocArg, auxMem,
                   auxFilled, entryArgs, entryReturned>>

\* Variant: the zero fill stops one byte short.
ZeroThreadLocals_OneShort ==
    /\ pc = "memset0"
    /\ stack' = memset(stack, primordialVmThreadLocals, 0, header.vmThreadLocalsSize - 1)
    /\ tlZeroed' = header.vmThreadLocalsSize - 1
    /\ Goto("auxSize", <<"image_header", "memset0">>)
    /\ UNCHANGED <<platform, envSet, exitCode, fd, imageLoaded, header, heap, method,
                   primordialVmThreadLocals, auxiliarySpace, auxiliarySpaceSize, mallocArg,
                   auxMem, auxFilled, entryArgs, entryReturned>>

\* memset(primordialVmThreadLocals, 0, vmThreadLocalsSize)
ZeroThreadLocals ==
    /\ pc = "memset0"
    /\ stack' = memset(stack, primordialVmThreadLocals, 0, header.vmThreadLocalsSize)
    /\ tlZeroed' = header.vmThreadLocalsSize
    /\ Goto("auxSize", <<"image_header", "memset0">>)
    /\ UNCHANGED <<platform, envSet, exitCode, fd, imageLoaded, header, heap, method,
                   primordialVmThreadLocals, auxiliarySpace, auxiliarySpaceSize, mallocArg,
                   auxMem, auxFilled, entryArgs, entryReturned>>

\* auxiliarySpace = 0; auxiliarySpaceSize = header size + REFERENCE_BUFFER_SIZE;
\* if (auxiliarySpaceSize) ...
TestAuxiliarySize ==
    /\ pc = "auxSize"
    /\ auxiliarySpace' = 0
    /\ auxiliarySpaceSize' = header.auxiliarySpaceSize + REFERENCE_BUFFER_SIZE
    /\ Goto(IF auxiliarySpaceSize' # 0 THEN "malloc" ELSE "entry", <<"image_header">>)
    /\ UNCHANGED <<platform, envSet, exitCode, fd, imageLoaded, header, heap, method, stack,
                   primordialVmThreadLocals, tlZeroed, mallocArg, auxMem, auxFilled,
                   entryArgs, entryReturned>>

\* Variant: a null result of malloc is not tested.
AllocateAuxiliarySpace_IgnoreNull ==
    /\ pc = "malloc"
    /\ LET size == header.auxiliarySpaceSize + REFERENCE_BUFFER_SIZE IN
       /\ mallocArg' = Append(mallocArg, size)
       /\ \E ok \in BOOLEAN :
            IF ok
              THEN /\ \E contents \in [1..size -> GarbageByte] : auxMem' = contents
                   /\ \E address \in MallocAddresses : auxiliarySpace' = address
                   /\ Goto("memset1", <<"image_header", "malloc">>)
              ELSE /\ auxMem' = <<>>
                   /\ auxiliarySpace' = 0
                   /\ Goto("entry", <<"image_header", "malloc">>)
    /\ UNCHANGED <<platform, envSet, exitCode, fd, imageLoaded, header, heap, method, stack,
                   primordialVmThreadLocals, tlZeroed, auxiliarySpaceSize, auxFilled,
                   entryArgs, entryReturned>>

\* auxiliarySpace = malloc(header size + REFERENCE_BUFFER_SIZE);
\* if (auxiliarySpace == 0) log_exit(1, ...)
AllocateAuxiliarySpace ==
    /\ pc = "malloc"
    /\ LET size == header.auxiliarySpaceSize + REFERENCE_BUFFER_SIZE IN
       /\ mallocArg' = Append(mallocArg, size)
       /\ \E ok \in BOOLEAN :
            IF ok
              THEN /\ \E contents \in [1..size -> GarbageByte] : auxMem' = contents
                   /\ \E address \in MallocAddresses : auxiliarySpace' = address
                   /\ Goto("memset1", <<"image_header", "malloc">>)
                   /\ UNCHANGED exitCode
              ELSE /\ auxMem' = <<>>
                   /\ auxiliarySpace' = 0
                   /\ log_exit(EXIT_NO_AUXILIARY_SPACE, "aux", <<"image_header", "malloc">>)
    /\ UNCHANGED <<platform, envSet, fd, imageLoaded, header, heap, method, stack,
                   primordialVmThreadLocals, tlZeroed, auxiliarySpaceSize, auxFilled,
                   entryArgs, entryReturned>>

\* Variant: the fill stops one byte short.
PoisonAuxiliarySpace_HeaderSizeLessOne ==
    /\ pc = "memset1"
    /\ LET n == header.auxiliarySpaceSize + REFERENCE_BUFFER_SIZE - 1 IN
       /\ auxMem' = [i \in DOMAIN auxMem |-> IF i <= n THEN POISON ELSE auxMem[i]]
       /\ auxFilled' = Append(auxFilled, n)
    /\ Goto("entry", <<"image_header", "memset1">>)
    /\ UNCHANGED <<platform, envSet, exitCode, fd, imageLoaded, header, heap, method, stack,
                   primordialVmThreadLocals, tlZeroed, auxiliarySpace, auxiliarySpaceSize,
                   mallocArg, entryArgs, entryReturned>>

\* memset(auxiliarySpace, 1, header size + REFERENCE_BUFFER_SIZE)
PoisonAuxiliarySpace ==
    /\ pc = "memset1"
    /\ LET n == header.auxiliarySpaceSize + REFERENCE_BUFFER_SIZE IN
       /\ auxMem' = [i \in DOMAIN auxMem |-> IF i <= n THEN POISON ELSE auxMem[i]]
       /\ auxFilled' = Append(auxFilled, n)
    /\ Goto("entry", <<"image_header", "memset1">>)
    /\ UNCHANGED <<platform, envSet, exitCode, fd, imageLoaded, header, heap, method, stack,
                   primordialVmThreadLocals, tlZeroed, auxiliarySpace, auxiliarySpaceSize,
                   mallocArg, entryArgs, entryReturned>>

\* (*method)(primordialVmThreadLocals, image_heap(), auxiliarySpace, ...): the call.
CallEntry ==
    /\ pc = "entry"
    /\ entryArgs' = Append(entryArgs,
                           [method |-> method,
                            primordialVmThreadLocals |-> primordialVmThreadLocals,
                            bootHeapRegionStart |-> heap,
                            auxiliarySpace |-> auxiliarySpace])
    /\ Goto("inEntry", <<"image_heap", "entry">>)
    /\ UNCHANGED <<platform, envSet, exitCode, fd, imageLoaded, header, heap, method, stack,
                   primordialVmThreadLocals, tlZeroed, auxiliarySpace, auxiliarySpaceSize,
                   mallocArg, auxMem, auxFilled, entryReturned>>

\* exitCode = (the value the entry function returns)
EntryReturns_To ==
    /\ pc = "inEntry"
    /\ \E v \in EntryReturns :
         /\ entryReturned' = Append(entryReturned, v)
         /\ exitCode' = v
    /\ Goto("close", <<"entry_return">>)
    /\ UNCHANGED <<platform, envSet, fd, imageLoaded, header, heap, method, stack,
                   primordialVmThreadLocals, tlZeroed, auxiliarySpace, auxiliarySpaceSize,
                   mallocArg, auxMem, auxFilled, entryArgs>>

\* native_exit(code), called by the managed runtime from inside the entry call.
native_exit ==
    /\ pc = "inEntry"
    /\ \E code \in NativeExitCodes : log_exit(code, "native_exit", <<"native_exit">>)
    /\ UNCHANGED <<platform, envSet, locals>>

\* native_trap_exit(code, address): describe the address, then log_exit(code, ...).
native_trap_exit ==
    /\ pc = "inEntry"
    /\ \E code \in NativeExitCodes :
         log_exit(code, "native_trap_exit", <<"dladdr", "native_trap_exit">>)
    /\ UNCHANGED <<platform, envSet, locals>>

\* Variant: a failed close replaces the exit code.
CloseImage_FailureSetsCode ==
    /\ pc = "close"
    /\ IF fd > 0
         THEN \E error \in {0, -1} :
                /\ Goto("return", IF error # 0 THEN <<"close", "warning">> ELSE <<"close">>)
                /\ exitCode' = IF error # 0 THEN error ELSE exitCode
         ELSE Goto("return", <<>>) /\ UNCHANGED exitCode
    /\ UNCHANGED <<platform, envSet, locals>>

\* if (fd > 0) { error = close(fd); if (error != 0) log_println(WARNING) }
CloseImage ==
    /\ pc = "close"
    /\ IF fd > 0
         THEN \E error \in {0, -1} :
                Goto("return", IF error # 0 THEN <<"close", "warning">> ELSE <<"close">>)
         ELSE Goto("return", <<>>)
    /\ UNCHANGED <<platform, envSet, exitCode, locals>>

\* return exitCode
Return ==
    /\ pc = "return"
    /\ outcome' = "returned"
    /\ pc' = "done"
    /\ trace' = Append(trace, "return")
    /\ UNCHANGED <<platform, envSet, fatal, exitCode, locals>>
    /\ UNCHANGED pathVars

Next ==
    \/ CheckEnvironment
    \/ loadImage
    \/ messenger_initialize
    \/ threads_initialize
    \/ ComputeMethod
    \/ AllocaThreadLocals
    \/ AlignThreadLocals
    \/ ZeroThreadLocals
    \/ TestAuxiliarySize
    \/ AllocateAuxiliarySpace
    \/ PoisonAuxiliarySpace
    \/ CallEntry
    \/ EntryReturns_To
    \/ native_exit
    \/ native_trap_exit
    \/ CloseImage
    \/ Return

Spec == Init /\ [][Next]_<<vars, pathVars>>

\* ------------------------------------------------------------ path resolver

\* Any other character of a path ('a').
Letters == {97}
Char == {NUL, SLASH} \cup Letters

\* A buffer of MAX_PATH_LENGTH characters together with the two bytes that lie
\* behind it in memory, which belong to something else.
Buffer == 0..(MAX_PATH_LENGTH - 1)
Memory == 0..(MAX_PATH_LENGTH + 1)

\* n copies of character c.
Fill(c, n) == [i \in 1..n |-> c]

\* Executable paths: a padded directory (or none) followed by a short tail.
Tails == UNION {[1..n -> {SLASH} \cup Letters] : n \in 0..MaxTail}
Paddings == {<<>>} \cup {<<SLASH>> \o Fill(c, k) : c \in Letters, k \in 0..MAX_PATH_LENGTH}
ExecutablePaths == {pad \o tail : pad \in Paddings, tail \in Tails}

\* What an uninitialised stack buffer and the bytes behind it may hold.
StackContents ==
    {[i \in Memory |-> IF i < j THEN c1 ELSE c2] :
        j \in 0..(MAX_PATH_LENGTH + 2), c1 \in Char, c2 \in Char}

\* What the two bytes behind a buffer may hold.
Adjacent == [{MAX_PATH_LENGTH, MAX_PATH_LENGTH + 1} -> Char]

\* readlink(linkName, result, MAX_PATH_LENGTH): copies at most MAX_PATH_LENGTH
\* characters of the path, appends no terminator, returns the number copied.
readlink(mem, path) ==
    LET n == IF Len(path) < MAX_PATH_LENGTH THEN Len(path) ELSE MAX_PATH_LENGTH IN
    [numberOfChars |-> n,
     mem |-> [i \in Memory |-> IF i < n THEN path[i + 1] ELSE mem[i]]]

\* realpath(_executablePath, result): the path and its terminator; NULL when
\* the path with its terminator does not fit.
realpath(mem, path) ==
    [numberOfChars |-> Len(path),
     mem |-> [i \in Memory |-> IF i < Len(path) THEN path[i + 1]
                               ELSE IF i = Len(path) THEN NUL ELSE mem[i]]]

\* for (p = result + numberOfChars; p >= result; p--) if (*p == '/') break;
\* found is the index the loop stops at, -1 when it runs off the front.
RECURSIVE ScanBackward(_, _)
ScanBackward(mem, p) ==
    IF p < 0 THEN [found |-> -1, reads |-> {}]
    ELSE IF mem[p] = SLASH THEN [found |-> p, reads |-> {p}]
    ELSE LET rest == ScanBackward(mem, p - 1) IN
         [found |-> rest.found, reads |-> rest.reads \cup {p}]

\* The loop of getExecutablePath with its body: p[1] = 0 at the '/' found.
ChopExecutableName(mem, numberOfChars) ==
    LET scan == ScanBackward(mem, numberOfChars) IN
    [mem |-> IF scan.found >= 0 THEN [mem EXCEPT ![scan.found + 1] = NUL] ELSE mem,
     reads |-> scan.reads,
     writes |-> IF scan.found >= 0 THEN {scan.found + 1} ELSE {}]

\* getExecutablePath(result) where the path can be read.
getExecutablePath(mem) ==
    IF platform = "GUESTVMXEN"
      THEN [mem |-> [mem EXCEPT ![0] = NUL], reads |-> {}, writes |-> {0}]
      ELSE LET read == IF platform = "DARWIN" THEN realpath(mem, executable)
                       ELSE readlink(mem, executable) IN
           ChopExecutableName(read.mem, read.numberOfChars)

\* Can the path be read at all: realpath needs room for the terminator.
CanFail == platform # "GUESTVMXEN"
MustFail == platform = "DARWIN" /\ Len(executable) >= MAX_PATH_LENGTH

\* strlen(s): the index of the first NUL; where none is in the modelled memory
\* the scan runs on behind it.
strlen(mem) ==
    IF \E i \in Memory : mem[i] = NUL
      THEN CHOOSE i \in Memory : mem[i] = NUL /\ \A j \in 0..(i - 1) : mem[j] # NUL
      ELSE MAX_PATH_LENGTH + 2

\* The C string that starts at the buffer's first byte.
CString(mem) == [i \in 1..strlen(mem) |-> mem[i - 1]]

\* getImageFilePath(result): getExecutablePath, then
\* strcpy(result + strlen(result), IMAGE_FILE_NAME). On GUESTVMXEN it is empty.
getImageFilePath(mem) ==
    IF platform = "GUESTVMXEN"
      THEN [path |-> CString(mem), reads |-> {}, writes |-> {}, appendAt |-> 0]
      ELSE LET dir == getExecutablePath(mem) IN
           [path |-> CString(dir.mem) \o IMAGE_FILE_NAME,
            reads |-> dir.reads,
            writes |-> dir.writes,
            appendAt |-> strlen(dir.mem)]

\* loadImage(): char imageFilePath[MAX_PATH_LENGTH]; getImageFilePath(imageFilePath);
\* image_load(imageFilePath). The buffer is an uninitialised local.
loadImagePath ==
    /\ pathPc = "loadImage"
    /\ \E readable \in BOOLEAN :
         IF ~readable
           THEN /\ CanFail
                /\ pathPc' = "exited"
                /\ UNCHANGED <<imageFilePath, scanReads, scanWrites, appendAt>>
           ELSE /\ ~MustFail
                /\ \E mem \in StackContents :
                     LET image == getImageFilePath(mem) IN
                     /\ imageFilePath' = image.path
                     /\ scanReads' = image.reads
                     /\ scanWrites' = image.writes
                     /\ appendAt' = image.appendAt
                /\ pathPc' = "loaded"
    /\ UNCHANGED <<executable, result, returned>>
    /\ UNCHANGED vars

\* native_executablePath(): static char result[MAX_PATH_LENGTH];
\* getExecutablePath(result); return result.
native_executablePath ==
    /\ pathPc = "loaded"
    /\ Len(returned) < MaxCalls
    /\ \E readable \in BOOLEAN :
         IF ~readable
           THEN /\ CanFail
                /\ pathPc' = "exited"
                /\ UNCHANGED <<result, returned, scanReads, scanWrites>>
           ELSE /\ ~MustFail
                /\ \E behind \in Adjacent :
                     LET mem == [i \in Memory |-> IF i \in Buffer THEN result[i] ELSE behind[i]]
                         dir == getExecutablePath(mem) IN
                     /\ result' = [i \in Buffer |-> dir.mem[i]]
                     /\ returned' = Append(returned,
                                           [string |-> CString(dir.mem),
                                            terminated |-> strlen(dir.mem) \in Buffer])
                     /\ scanReads' = dir.reads
                     /\ scanWrites' = dir.writes
                /\ UNCHANGED pathPc
    /\ UNCHANGED <<executable, imageFilePath, appendAt>>
    /\ UNCHANGED vars

InitPath ==
    /\ executable \in ExecutablePaths
    /\ PathIdle
    /\ platform \in Platforms
    /\ envSet = TRUE
    /\ pc = "loadImage"
    /\ outcome = "running"
    /\ fatal = "none"
    /\ exitCode = 0
    /\ fd = 0
    /\ imageLoaded = FALSE
    /\ header = NoHeader
    /\ heap = 0
    /\ method = 0
    /\ stack = <<>>
    /\ primordialVmThreadLocals = 0
    /\ tlZeroed = 0
    /\ auxiliarySpace = 0
    /\ auxiliarySpaceSize = 0
    /\ mallocArg = <<>>
    /\ auxMem = <<>>
    /\ auxFilled = <<>>
    /\ entryArgs = <<>>
    /\ entryReturned = <<>>
    /\ trace = <<>>

NextPath ==
    \/ loadImagePath
    \/ native_executablePath

SpecPath == InitPath /\ [][NextPath]_<<vars, pathVars>>

\* ------------------------------------------------------ claims about maxine()

\* The exit calls of the loader itself, as opposed to those of the managed runtime.
LoaderFatal == {"env", "selfpath", "aux"}

\* The status each of the loader's exit calls passes.
FatalExitCode(cause) ==
    CASE cause = "env" -> EXIT_NO_FLAT_NAMESPACE
      [] cause = "selfpath" -> EXIT_UNREADABLE_PATH
      [] cause = "aux" -> EXIT_NO_AUXILIARY_SPACE

Count(event) == Cardinality({i \in DOMAIN trace : trace[i] = event})
Positions(event) == {i \in DOMAIN trace : trace[i] = event}
\* Every occurrence of a precedes every occurrence of b, and both occur.
Before(a, b) ==
    /\ Positions(a) # {} /\ Positions(b) # {}
    /\ \A i \in Positions(a), j \in Positions(b) : i < j

EntryCalled == entryArgs # <<>>

\* C1: once maxine() has returned, the value it returns is the value the entry
\* function returned, for every 32-bit value, every file descriptor image_load
\* gave and every result of close.
C1_ReturnsEntryValue ==
    outcome = "returned" =>
        /\ Len(entryReturned) = 1
        /\ exitCode = entryReturned[1]

\* C1 witness: a negative value was returned although the close of a positive
\* descriptor failed.
C1_Witness ==
    /\ outcome = "returned"
    /\ fd > 0
    /\ Count("warning") = 1
    /\ entryReturned = <<MinInt32>>

\* C2 as stated: at the entry call the context is word aligned, its size is
\* vmThreadLocalsSize rounded up to a word boundary and every byte of it is zero.
C2_Original ==
    EntryCalled =>
        LET p == entryArgs[1].primordialVmThreadLocals
            size == wordAlign(header.vmThreadLocalsSize) IN
        /\ p % WordSize = 0
        /\ tlZeroed = size
        /\ \A a \in p..(p + size - 1) : a \in DOMAIN stack /\ stack[a] = 0

\* C2 amended: at the entry call the context is word aligned, lies inside the
\* alloca'd block, its size is exactly vmThreadLocalsSize (not rounded up) and
\* every one of those bytes is zero.
C2_Amended ==
    EntryCalled =>
        LET p == entryArgs[1].primordialVmThreadLocals
            size == header.vmThreadLocalsSize IN
        /\ p % WordSize = 0
        /\ p = primordialVmThreadLocals
        /\ tlZeroed = size
        /\ \A a \in p..(p + size - 1) : a \in DOMAIN stack /\ stack[a] = 0

\* C2 witness: the entry function is called with a context that alignment moved,
\* of a size that is no multiple of the word size, with non-zero slack behind it.
C2_Witness ==
    /\ pc = "inEntry"
    /\ header.vmThreadLocalsSize % WordSize # 0
    /\ header.vmThreadLocalsSize > 1
    /\ primordialVmThreadLocals \notin DOMAIN stack
         \/ \E a \in DOMAIN stack : a < primordialVmThreadLocals
    /\ \E a \in DOMAIN stack : stack[a] # 0

\* C3: with auxiliarySpaceSize > 0 and a successful malloc, the region passed to
\* the entry function has the length tested, which is the length allocated and
\* the length filled, auxiliarySpaceSize + REFERENCE_BUFFER_SIZE, and every byte
\* holds the non-zero poison value.
C3_AuxiliaryPoisoned ==
    (EntryCalled /\ header.auxiliarySpaceSize > 0) =>
        LET size == header.auxiliarySpaceSize + REFERENCE_BUFFER_SIZE IN
        /\ entryArgs[1].auxiliarySpace \in MallocAddresses
        /\ auxiliarySpaceSize = size
        /\ mallocArg = <<size>>
        /\ auxFilled = <<size>>
        /\ Len(auxMem) = size
        /\ \A i \in DOMAIN auxMem : auxMem[i] = POISON
        /\ POISON # 0

\* C3 witness: the entry function is called with a region of more than one byte.
C3_Witness ==
    /\ pc = "inEntry"
    /\ header.auxiliarySpaceSize > 1
    /\ Len(auxMem) > 1

\* C4: with auxiliarySpaceSize = 0 and no reservation there is no malloc, no fill
\* and no error, and the entry function gets the zero address; and the entry
\* function gets the zero address in that case only.
C4_ZeroAddressIffZeroSize ==
    /\ (imageLoaded /\ header.auxiliarySpaceSize = 0 /\ REFERENCE_BUFFER_SIZE = 0) =>
          /\ mallocArg = <<>>
          /\ auxFilled = <<>>
          /\ fatal # "aux"
          /\ Count("malloc") = 0 /\ Count("memset1") = 0
          /\ EntryCalled => entryArgs[1].auxiliarySpace = 0
    /\ (EntryCalled /\ entryArgs[1].auxiliarySpace = 0) =>
          /\ header.auxiliarySpaceSize = 0
          /\ REFERENCE_BUFFER_SIZE = 0

\* C4 witness: the entry function is called for an image with no auxiliary space.
C4_Witness ==
    /\ pc = "inEntry"
    /\ header.auxiliarySpaceSize = 0
    /\ entryArgs[1].auxiliarySpace = 0

\* C6: on Darwin with DYLD_FORCE_FLAT_NAMESPACE unset, the first step ends the
\* process with status 11 and nothing else has been called: no path resolution,
\* no image_load, no messenger or thread initialization, no entry call.
C6_MissingEnvironmentExits ==
    (platform = "DARWIN" /\ ~envSet /\ pc # "getenv") =>
        /\ outcome = "exited"
        /\ fatal = "env"
        /\ exitCode = 11
        /\ trace = <<"getenv", "exit">>
        /\ ~imageLoaded
        /\ ~EntryCalled
        /\ ~ENABLED Next

\* C6 witness: a Darwin run without the variable has ended.
C6_Witness ==
    /\ platform = "DARWIN"
    /\ ~envSet
    /\ outcome = "exited"

\* C7 as stated: the status of a fatal exit of the loader is used by no other
\* fatal condition of the loader, so it identifies the condition.
C7_Original ==
    (outcome = "exited" /\ fatal \in LoaderFatal) =>
        \A other \in LoaderFatal \ {fatal} : exitCode # FatalExitCode(other)

\* C7 amended: the loader's fatal exits use small positive statuses; a missing
\* environment variable is the only one with status 11, while an unreadable self
\* path and an auxiliary allocation failure both end with status 1.
C7_Amended ==
    (outcome = "exited" /\ fatal \in LoaderFatal) =>
        /\ exitCode = FatalExitCode(fatal)
        /\ exitCode > 0
        /\ (fatal = "env") <=> (exitCode = 11)
        /\ (fatal \in {"selfpath", "aux"}) <=> (exitCode = 1)

\* C7 witness: a run ended by an auxiliary allocation failure.
C7_Witness ==
    /\ outcome = "exited"
    /\ fatal = "aux"
    /\ exitCode = 1

\* C10: the entry function is called at most once and only after the environment
\* check (where there is one), image load, messenger and thread initialization,
\* the zero fill and the allocation and poisoning (or the size-zero skip), in
\* that order; header and heap are read only after image_load; a fatal exit of
\* the loader stops the run for good before any entry call.
C10_Order ==
    /\ Count("entry") <= 1
    /\ Len(entryArgs) = Count("entry")
    /\ \A e \in {"getenv", "getExecutablePath", "image_load", "messenger_initialize",
                 "threads_initialize", "alloca", "wordAlign", "memset0", "malloc",
                 "memset1", "close", "exit", "return"} : Count(e) <= 1
    /\ Count("entry") = 1 =>
          /\ platform = "DARWIN" => Before("getenv", "image_load")
          /\ Before("image_load", "messenger_initialize")
          /\ Before("messenger_initialize", "threads_initialize")
          /\ Before("threads_initialize", "alloca")
          /\ Before("alloca", "wordAlign")
          /\ Before("wordAlign", "memset0")
          /\ Before("memset0", "entry")
          /\ IF auxiliarySpaceSize # 0
               THEN /\ Before("memset0", "malloc")
                    /\ Before("malloc", "memset1")
                    /\ Before("memset1", "entry")
               ELSE Count("malloc") = 0 /\ Count("memset1") = 0
    /\ \A i \in Positions("image_header") \cup Positions("image_heap") :
          \E j \in Positions("image_load") : j < i
    /\ fatal \in LoaderFatal =>
          /\ outcome = "exited"
          /\ Count("entry") = 0
          /\ trace[Len(trace)] = "exit"
          /\ ~ENABLED Next

\* C10 witness: the entry function has been called after a malloc and a fill.
C10_Witness ==
    /\ pc = "inEntry"
    /\ Count("memset1") = 1
    /\ platform = "DARWIN"

\* ---------------------------------------------- claims about the path resolver

\* What the link read delivers: the first MAX_PATH_LENGTH characters of the path.
LinkText ==
    SubSeq(executable, 1,
           IF Len(executable) < MAX_PATH_LENGTH THEN Len(executable) ELSE MAX_PATH_LENGTH)
HasSlash(path) == \E i \in DOMAIN path : path[i] = SLASH
LastSlash(path) == CHOOSE i \in DOMAIN path :
                       path[i] = SLASH /\ \A j \in DOMAIN path : j > i => path[j] # SLASH
\* The path up to and including its last '/'.
Directory(path) == SubSeq(path, 1, LastSlash(path))

\* C5 as stated: on the link-reading platforms, for a link text with a '/' and
\* any prior contents of the buffer, image_load receives the link text up to and
\* including its last '/' followed by "maxine.vm".
C5_Original ==
    (pathPc = "loaded" /\ platform \in LinkPlatforms /\ HasSlash(LinkText)) =>
        imageFilePath = Directory(LinkText) \o IMAGE_FILE_NAME

\* C8 as stated: two calls of native_executablePath with the same executable
\* return the same string, and the buffer holds a NUL-terminated string.
C8_Original ==
    Len(returned) = 2 =>
        /\ returned[1].string = returned[2].string
        /\ returned[1].terminated
        /\ returned[2].terminated

\* C9 as stated: for a link text of any length up to MAX_PATH_LENGTH and any
\* buffer contents, every position the backward scan reads and the position it
\* writes lie inside the buffer, and the image name is appended at a position
\* inside the buffer.
C9_Original ==
    (pathPc = "loaded" /\ platform \in LinkPlatforms) =>
        /\ scanReads \subseteq Buffer
        /\ scanWrites \subseteq Buffer
        /\ appendAt \in Buffer

====
